---- MODULE Spec2Model ----
(***************************************************************************)
(* A model of codicefiscale.py, the codec of the Italian fiscal code.      *)
(*                                                                         *)
(* A text is a sequence of one-character strings; a value of another type  *)
(* is a record that is not a text.  A call either returns a value or       *)
(* raises: an outcome is [exc |-> "None", val |-> v] or [exc |-> E, ...].  *)
(* Every behaviour is one caller: from the idle state it calls one public  *)
(* or private function on arguments drawn from bounded sets, may pass a    *)
(* code returned by build on to isvalid, get_birthday or get_sex, and      *)
(* returns to idle.                                                        *)
(***************************************************************************)
EXTENDS Integers, Sequences, FiniteSets, TLC

VARIABLES
    calls,     \* the functions called since idle, in order
    person,    \* the arguments of build (surname, name, birthday, sex, municipality)
    code,      \* the argument of isvalid / control_code / get_birthday / get_sex / a triplet
    ret        \* the outcome of the last call

vars == <<calls, person, code, ret>>

----------------------------------------------------------------------------
(* Bounds of the model.                                                    *)

\* Longest surname or name handed to the triplet functions.
MaxLen == 4

----------------------------------------------------------------------------
(* Python values and outcomes.                                             *)

Ok(v) == [exc |-> "None", val |-> v]
Raise(e) == [exc |-> e, val |-> <<>>]

\* A str value and two values that are not basestring (None, an int).
PyStr(s) == [text |-> TRUE, s |-> s]
PyNone == [text |-> FALSE, s |-> <<"None">>]
PyInt == [text |-> FALSE, s |-> <<"5">>]

Range(f) == {f[i] : i \in DOMAIN f}

\* list.index / str.index of a 1-character item, 0-based; -1 when absent.
IndexOf(ch, seq) ==
    IF \E i \in 1..Len(seq) : seq[i] = ch
    THEN (CHOOSE i \in 1..Len(seq) :
              seq[i] = ch /\ \A j \in 1..(i - 1) : seq[j] # ch) - 1
    ELSE -1

\* Python's slice s[lo:hi] for 0 <= lo, 0 <= hi.
Slice(s, lo, hi) ==
    LET h == IF hi > Len(s) THEN Len(s) ELSE hi
    IN  IF lo >= h THEN <<>> ELSE SubSeq(s, lo + 1, h)

----------------------------------------------------------------------------
(* The string module's tables and the module's constants.                  *)

digits == <<"0", "1", "2", "3", "4", "5", "6", "7", "8", "9">>

ascii_uppercase ==
    <<"A", "B", "C", "D", "E", "F", "G", "H", "I", "J", "K", "L", "M",
      "N", "O", "P", "Q", "R", "S", "T", "U", "V", "W", "X", "Y", "Z">>

ascii_lowercase ==
    <<"a", "b", "c", "d", "e", "f", "g", "h", "i", "j", "k", "l", "m",
      "n", "o", "p", "q", "r", "s", "t", "u", "v", "w", "x", "y", "z">>

\* str.upper(): a lower-case ASCII letter becomes its capital, every other
\* character stays.
upper_char(ch) ==
    IF ch \in Range(ascii_lowercase)
    THEN ascii_uppercase[IndexOf(ch, ascii_lowercase) + 1]
    ELSE ch

upper(s) == [i \in 1..Len(s) |-> upper_char(s[i])]

VOWELS == {"A", "E", "I", "O", "U"}

CONSONANTS == Range(ascii_uppercase) \ VOWELS

MONTHSCODE == <<"A", "B", "C", "D", "E", "H", "L", "M", "P", "R", "S", "T">>

----------------------------------------------------------------------------
(* _pattern: the compiled regular expression, as its sequence of character *)
(* classes, one per position.                                              *)

ClassAZ == Range(ascii_uppercase)
ClassOmo == Range(digits) \cup {"L", "M", "N", "P", "Q", "R", "S", "T", "U", "V"}
ClassMonth == {"A", "B", "C", "D", "E", "H", "L", "M", "P", "R", "S", "T"}

Repeat(cls, n) == [i \in 1..n |-> cls]

pattern_classes ==
    Repeat(ClassAZ, 6) \o Repeat(ClassOmo, 2) \o Repeat(ClassMonth, 1)
        \o Repeat(ClassOmo, 2) \o Repeat(ClassAZ, 1) \o Repeat(ClassOmo, 3)
        \o Repeat(ClassAZ, 1)

\* _pattern.match(s) is not None.  ^ anchors at the start; $ matches at the
\* end of the string and also just before a newline that ends the string.
pattern_match(s) ==
    LET n == Len(pattern_classes)
    IN  /\ Len(s) >= n
        /\ \A i \in 1..n : s[i] \in pattern_classes[i]
        /\ \/ Len(s) = n
           \/ Len(s) = n + 1 /\ s[n + 1] = "\n"

----------------------------------------------------------------------------
(* control_code                                                            *)

\* even_controlcode numbering the letters after the digits, 10..35.
even_controlcode_ordinal ==
    [ch \in Range(digits) |-> IndexOf(ch, digits)]
        @@ [ch \in Range(ascii_uppercase) |-> 10 + IndexOf(ch, ascii_uppercase)]

\* even_controlcode: every digit and every capital letter maps to its index
\* in its own table (enumerate restarts at 0 for the letters).
even_controlcode ==
    [ch \in Range(digits) |-> IndexOf(ch, digits)]
        @@ [ch \in Range(ascii_uppercase) |-> IndexOf(ch, ascii_uppercase)]

values ==
    <<1, 0, 5, 7, 9, 13, 15, 17, 19, 21, 2, 4, 18, 20, 11, 3, 6, 8,
      12, 14, 16, 10, 22, 25, 24, 23>>

odd_controlcode ==
    [ch \in Range(digits) |-> values[IndexOf(ch, digits) + 1]]
        @@ [ch \in Range(ascii_uppercase) |->
                values[IndexOf(ch, ascii_uppercase) + 1]]

\* The loop of control_code from 0-based index idx on, with the running sum;
\* a character missing from the table raises KeyError.
RECURSIVE control_loop(_, _, _)
control_loop(input_string, idx, acc) ==
    IF idx >= Len(input_string)
    THEN Ok(<<ascii_uppercase[(acc % 26) + 1]>>)
    ELSE LET ch == input_string[idx + 1]
             table == IF idx % 2 = 0 THEN odd_controlcode ELSE even_controlcode
         IN  IF ch \notin DOMAIN table
             THEN Raise("KeyError")
             ELSE control_loop(input_string, idx + 1, acc + table[ch])

control_code(input_string) ==
    IF Len(input_string) # 15
    THEN Raise("AssertionError")
    ELSE control_loop(input_string, 0, 0)

----------------------------------------------------------------------------
(* isvalid                                                                 *)

\* isvalid without its length check.
isvalid_nolen(c) ==
    IF ~c.text
    THEN Ok(FALSE)
    ELSE LET up == upper(c.s)
         IN  IF ~pattern_match(up)
             THEN Ok(FALSE)
             ELSE LET cc == control_code(Slice(up, 0, 15))
                  IN  IF cc.exc # "None"
                      THEN Raise(cc.exc)
                      ELSE Ok(cc.val = <<up[16]>>)

isvalid(c) ==
    IF ~c.text
    THEN Ok(FALSE)
    ELSE IF Len(c.s) # 16
    THEN Ok(FALSE)
    ELSE LET up == upper(c.s)
         IN  IF ~pattern_match(up)
             THEN Ok(FALSE)
             ELSE LET cc == control_code(Slice(up, 0, 15))
                  IN  IF cc.exc # "None"
                      THEN Raise(cc.exc)
                      ELSE Ok(cc.val = <<up[16]>>)

----------------------------------------------------------------------------
(* The triplets                                                            *)

\* The while loop of __common_triplet: vowels.pop(0) on an empty list raises
\* IndexError.
RECURSIVE common_loop(_, _, _)
common_loop(output, vowels, stopat) ==
    IF Len(output) >= stopat
    THEN Ok(output)
    ELSE IF vowels = <<>>
    THEN Raise("IndexError")
    ELSE common_loop(Append(output, Head(vowels)), Tail(vowels), stopat)

common_triplet(input_string, consonants, vowels) ==
    LET stopat == IF Len(input_string) > 2 THEN 3 ELSE 2
        filled == common_loop(consonants, vowels, stopat)
    IN  IF filled.exc # "None"
        THEN filled
        ELSE LET output == IF Len(filled.val) = 2
                           THEN Append(filled.val, "X")
                           ELSE filled.val
             IN  Ok(Slice(output, 0, 3))

IsConsonant(ch) == ch \in CONSONANTS
IsVowel(ch) == ch \in VOWELS
NotSpace(ch) == ch # " "

\* The pair (consonants, vowels) as a record.
consonants_and_vowels(input_string) ==
    LET s == SelectSeq(upper(input_string), NotSpace)
    IN  [consonants |-> SelectSeq(s, IsConsonant),
         vowels |-> SelectSeq(s, IsVowel)]

surname_triplet(input_string) ==
    LET cv == consonants_and_vowels(input_string)
    IN  common_triplet(input_string, cv.consonants, cv.vowels)

\* name_triplet taking the first three of more than three consonants.
name_triplet_noskip(input_string) ==
    IF input_string = <<>>
    THEN Ok(<<"X", "X", "X">>)
    ELSE LET cv == consonants_and_vowels(input_string)
         IN  IF Len(cv.consonants) > 3
             THEN Ok(<<cv.consonants[1], cv.consonants[2], cv.consonants[3]>>)
             ELSE common_triplet(input_string, cv.consonants, cv.vowels)

name_triplet(input_string) ==
    IF input_string = <<>>
    THEN Ok(<<"X", "X", "X">>)
    ELSE LET cv == consonants_and_vowels(input_string)
         IN  IF Len(cv.consonants) > 3
             THEN Ok(<<cv.consonants[1], cv.consonants[3], cv.consonants[4]>>)
             ELSE common_triplet(input_string, cv.consonants, cv.vowels)

----------------------------------------------------------------------------
(* Number formatting                                                       *)

\* str(n) for n >= 0: the decimal digits, no padding.
RECURSIVE str(_)
str(n) ==
    IF n < 10 THEN <<digits[n + 1]>> ELSE Append(str(n \div 10), digits[(n % 10) + 1])

\* "%02d" % n: the sign, if any, counts in the width of 2.
fmt02d(n) ==
    IF n < 0 THEN <<"-">> \o str(-n)
    ELSE IF n < 10 THEN <<"0">> \o str(n)
    ELSE str(n)

\* int(s) on a text of decimal digits; any other character raises ValueError
\* (the forms int() also accepts, a sign or surrounding blanks, hold a
\* character that isvalid rejects at these positions).
RECURSIVE int_digits(_, _)
int_digits(s, acc) ==
    IF s = <<>> THEN acc ELSE int_digits(Tail(s), acc * 10 + IndexOf(Head(s), digits))

int(s) ==
    IF s # <<>> /\ \A i \in 1..Len(s) : s[i] \in Range(digits)
    THEN [exc |-> "None", val |-> int_digits(s, 0)]
    ELSE [exc |-> "ValueError", val |-> 0]

----------------------------------------------------------------------------
(* build                                                                   *)

\* The day field without the offset of 40 that marks a woman.
day_field_nooffset(sex, day) == day

\* sex == 'M' and birthday.day or 40 + birthday.day
day_field(sex, day) == IF sex = "M" /\ day # 0 THEN day ELSE 40 + day

build(surname, name, birthday, sex, municipality) ==
    LET st == surname_triplet(surname)
        nt == name_triplet(name)
    IN  IF st.exc # "None" THEN st
        ELSE IF nt.exc # "None" THEN nt
        ELSE LET output == st.val \o nt.val
                     \o Slice(str(birthday.year), 2, 4 + Len(str(birthday.year)))
                     \o <<MONTHSCODE[birthday.month]>>
                     \o fmt02d(day_field(sex, birthday.day))
                     \o municipality
                 cc == control_code(output)
             IN  IF cc.exc # "None" THEN cc
                 ELSE LET full == output \o cc.val
                          valid == isvalid(PyStr(full))
                      IN  IF valid.exc # "None" THEN Raise(valid.exc)
                          ELSE IF ~valid.val THEN Raise("AssertionError")
                          ELSE Ok(full)

----------------------------------------------------------------------------
(* get_birthday and get_sex                                                *)

\* day_year_charmap numbering the omocodia letters from 1.
day_year_charmap_from1 ==
    [ch \in Range(digits) |-> IndexOf(ch, digits)]
        @@ [ch \in Range(<<"L", "M", "N", "P", "Q", "R", "S", "T", "U", "V">>) |->
                1 + IndexOf(ch, <<"L", "M", "N", "P", "Q", "R", "S", "T", "U", "V">>)]

day_year_charmap ==
    [ch \in Range(digits) |-> IndexOf(ch, digits)]
        @@ [ch \in Range(<<"L", "M", "N", "P", "Q", "R", "S", "T", "U", "V">>) |->
                IndexOf(ch, <<"L", "M", "N", "P", "Q", "R", "S", "T", "U", "V">>)]

\* day < 32 and day or day - 40
day_of(day) == IF day < 32 /\ day # 0 THEN day ELSE day - 40

\* The body of get_birthday after its assertion, in the order of its
\* statements: the day (KeyError), the month (ValueError), the year
\* (KeyError); c is the text.
birthday_of(c) ==
    IF c[10] \notin DOMAIN day_year_charmap \/ c[11] \notin DOMAIN day_year_charmap
    THEN Raise("KeyError")
    ELSE IF IndexOf(c[9], MONTHSCODE) < 0
    THEN Raise("ValueError")
    ELSE IF c[7] \notin DOMAIN day_year_charmap \/ c[8] \notin DOMAIN day_year_charmap
    THEN Raise("KeyError")
    ELSE LET day == day_year_charmap[c[10]] * 10 + day_year_charmap[c[11]]
             month == IndexOf(c[9], MONTHSCODE) + 1
             year == day_year_charmap[c[7]] * 10 + day_year_charmap[c[8]]
         IN  Ok(fmt02d(day_of(day)) \o <<"-">> \o fmt02d(month) \o <<"-">>
                    \o fmt02d(year))

get_birthday(c) ==
    LET valid == isvalid(c)
    IN  IF valid.exc # "None" THEN Raise(valid.exc)
        ELSE IF ~valid.val THEN Raise("AssertionError")
        ELSE birthday_of(c.s)

get_sex(c) ==
    LET valid == isvalid(c)
    IN  IF valid.exc # "None" THEN Raise(valid.exc)
        ELSE IF ~valid.val THEN Raise("AssertionError")
        ELSE LET n == int(Slice(c.s, 9, 11))
             IN  IF n.exc # "None" THEN Raise(n.exc)
                 ELSE Ok(<<IF n.val < 32 THEN "M" ELSE "F">>)

----------------------------------------------------------------------------
(* The arguments the callers draw.                                         *)

\* Characters of the surnames and names handed to the triplet functions:
\* consonants, vowels, both cases, and the space.
NameChars == {"R", "C", "m", "A", "o", " "}

Texts == UNION {[1..n -> NameChars] : n \in 0..MaxLen}

SampleSurnames ==
    { <<"R", "o", "c", "c", "a">>, <<"F", "o">>, <<"F", " ", "o">>, <<"A">> }

SampleNames ==
    { <<"E", "m", "a", "n", "u", "e", "l", "e">>, <<>>, <<"A", "l">>,
      <<"C", "h", "i", "a", "r", "a">> }

SampleYears == {7, 983, 1983, 2000}
SampleMonths == {1, 11, 12}
Days == 1..31
Sexes == {"M", "F"}
SampleMunicipalities == { <<"D", "9", "6", "9">>, <<"H", "5", "L", "M">> }

\* Codes that pass isvalid: the two of the docstrings, then omocodia letters
\* in the day, in the year and the day, a day field of 00, lower case.
BaseCodes ==
    { <<"R","C","C","M","N","L","8","3","S","1","8","D","9","6","9","H">>,
      <<"C","N","T","C","H","R","8","3","T","4","1","D","9","6","9","D">>,
      <<"R","C","C","M","N","L","8","3","S","1","U","D","9","6","9","E">>,
      <<"R","C","C","M","N","L","U","P","S","R","M","D","9","6","9","M">>,
      <<"R","C","C","M","N","L","8","3","S","0","0","D","9","6","9","O">>,
      <<"r","c","c","m","n","l","8","3","s","1","8","d","9","6","9","h">> }

CodeChars ==
    Range(ascii_uppercase) \cup Range(digits)
        \cup {"a", "h", "l", "s", "u", "z", " ", "-", "\n"}

Subst(s, i, ch) == [s EXCEPT ![i] = ch]

\* The control letter of a 15-character text over 0-9 and A-Z, as the sum of
\* the positional values mod 26: at an even 0-based position the character's
\* entry of the 26-value array at its own index, at an odd position the digit's
\* value or the letter's index plus letterBase.
RefValues ==
    <<1, 0, 5, 7, 9, 13, 15, 17, 19, 21, 2, 4, 18, 20, 11, 3, 6, 8,
      12, 14, 16, 10, 22, 25, 24, 23>>

RefOrd(ch) ==
    IF ch \in Range(digits) THEN IndexOf(ch, digits) ELSE IndexOf(ch, ascii_uppercase)

RefWeight(ch, pos, letterBase) ==
    IF pos % 2 = 0 THEN RefValues[RefOrd(ch) + 1]
    ELSE IF ch \in Range(digits) THEN RefOrd(ch)
    ELSE letterBase + RefOrd(ch)

RECURSIVE RefSum(_, _, _)
RefSum(x, n, letterBase) ==
    IF n = 0 THEN 0
    ELSE RefSum(x, n - 1, letterBase) + RefWeight(x[n], n - 1, letterBase)

RefControl(x, letterBase) == ascii_uppercase[(RefSum(x, Len(x), letterBase) % 26) + 1]

AlphaNum(x) == \A i \in 1..Len(x) : x[i] \in Range(digits) \cup Range(ascii_uppercase)

\* s with its 16th character replaced by the control letter of its first 15,
\* upper-cased, when these have one.
Reseal(s) ==
    IF Len(s) = 16 /\ AlphaNum(upper(SubSeq(s, 1, 15)))
    THEN Subst(s, 16, RefControl(upper(SubSeq(s, 1, 15)), 0))
    ELSE s

EditedCodes ==
    {Subst(b, i, ch) : b \in BaseCodes, i \in 1..16, ch \in CodeChars}

CodeTexts ==
    EditedCodes \cup {Reseal(s) : s \in EditedCodes}
        \cup {SubSeq(b, 1, n) : b \in BaseCodes, n \in 0..15}
        \cup {Append(b, ch) : b \in BaseCodes, ch \in {"\n", "H"}}

CodeInputs == {PyStr(s) : s \in CodeTexts} \cup {PyNone, PyInt}

\* control_code is handed the first 15 characters of a code, or a text of
\* another length.
ControlInputs ==
    {Slice(s, 0, 15) : s \in CodeTexts} \cup BaseCodes

----------------------------------------------------------------------------
(* The callers.                                                            *)

NoPerson ==
    [surname |-> <<>>, name |-> <<>>, birthday |-> [year |-> 0, month |-> 0, day |-> 0],
     sex |-> "", municipality |-> <<>>]

Init ==
    /\ calls = <<>>
    /\ person = NoPerson
    /\ code = PyNone
    /\ ret = Ok(<<>>)

Build ==
    /\ calls = <<>>
    /\ \E surname \in SampleSurnames, name \in SampleNames, year \in SampleYears,
          month \in SampleMonths, day \in Days, sex \in Sexes,
          municipality \in SampleMunicipalities :
          LET birthday == [year |-> year, month |-> month, day |-> day]
          IN  /\ person' = [surname |-> surname, name |-> name, birthday |-> birthday,
                            sex |-> sex, municipality |-> municipality]
              /\ ret' = build(surname, name, birthday, sex, municipality)
    /\ calls' = <<"build">>
    /\ UNCHANGED code

\* isvalid, get_birthday and get_sex are each called on a code the caller
\* draws, or on the code that build just returned.
IsValid ==
    \/ /\ calls = <<>>
       /\ \E c \in CodeInputs : code' = c /\ ret' = isvalid(c)
       /\ calls' = <<"isvalid">>
       /\ UNCHANGED person
    \/ /\ calls = <<"build">>
       /\ ret.exc = "None"
       /\ code' = PyStr(ret.val)
       /\ ret' = isvalid(PyStr(ret.val))
       /\ calls' = <<"build", "isvalid">>
       /\ UNCHANGED person

GetBirthday ==
    \/ /\ calls = <<>>
       /\ \E c \in CodeInputs : code' = c /\ ret' = get_birthday(c)
       /\ calls' = <<"get_birthday">>
       /\ UNCHANGED person
    \/ /\ calls = <<"build">>
       /\ ret.exc = "None"
       /\ code' = PyStr(ret.val)
       /\ ret' = get_birthday(PyStr(ret.val))
       /\ calls' = <<"build", "get_birthday">>
       /\ UNCHANGED person

GetSex ==
    \/ /\ calls = <<>>
       /\ \E c \in CodeInputs : code' = c /\ ret' = get_sex(c)
       /\ calls' = <<"get_sex">>
       /\ UNCHANGED person
    \/ /\ calls = <<"build">>
       /\ ret.exc = "None"
       /\ code' = PyStr(ret.val)
       /\ ret' = get_sex(PyStr(ret.val))
       /\ calls' = <<"build", "get_sex">>
       /\ UNCHANGED person

ControlCode ==
    /\ calls = <<>>
    /\ \E s \in ControlInputs : code' = PyStr(s) /\ ret' = control_code(s)
    /\ calls' = <<"control_code">>
    /\ UNCHANGED person

SurnameTriplet ==
    /\ calls = <<>>
    /\ \E s \in Texts : code' = PyStr(s) /\ ret' = surname_triplet(s)
    /\ calls' = <<"surname_triplet">>
    /\ UNCHANGED person

NameTriplet ==
    /\ calls = <<>>
    /\ \E s \in Texts : code' = PyStr(s) /\ ret' = name_triplet(s)
    /\ calls' = <<"name_triplet">>
    /\ UNCHANGED person

\* The caller is done with the result.
Return ==
    /\ calls # <<>>
    /\ calls' = <<>>
    /\ person' = NoPerson
    /\ code' = PyNone
    /\ ret' = Ok(<<>>)

Next ==
    \/ Build
    \/ IsValid
    \/ GetBirthday
    \/ GetSex
    \/ ControlCode
    \/ SurnameTriplet
    \/ NameTriplet
    \/ Return

Spec == Init /\ [][Next]_vars

----------------------------------------------------------------------------
(* What the properties refer to.                                           *)

Last(s) == s[Len(s)]

Letters == Range(ascii_uppercase) \cup Range(ascii_lowercase)

OmoLetters == <<"L", "M", "N", "P", "Q", "R", "S", "T", "U", "V">>

\* The per-position grammar of a fiscal code: the class of each of the 16
\* positions.
RefClass(i) ==
    IF i \in 1..6 \/ i = 12 \/ i = 16 THEN Range(ascii_uppercase)
    ELSE IF i = 9 THEN Range(MONTHSCODE)
    ELSE Range(digits) \cup Range(OmoLetters)

RefPattern(s) == \A i \in 1..16 : s[i] \in RefClass(i)

\* A text of length 16 whose upper-cased form matches the grammar and ends
\* with the control letter of its first 15 characters.
RefValid(c) ==
    /\ c.text
    /\ Len(c.s) = 16
    /\ RefPattern(upper(c.s))
    /\ upper(c.s)[16] = RefControl(SubSeq(upper(c.s), 1, 15), 0)

\* The value of a digit or of its omocodia letter.
RefDigit(ch) ==
    IF ch \in Range(digits) THEN IndexOf(ch, digits) ELSE IndexOf(ch, OmoLetters)

RefTwoDigits(n) == <<digits[(n \div 10) + 1], digits[(n % 10) + 1]>>

RefIsConsonant(ch) == ch \in Range(ascii_uppercase) \ {"A", "E", "I", "O", "U"}
RefIsVowel(ch) == ch \in {"A", "E", "I", "O", "U"}
RefConsonants(s) == SelectSeq(upper(s), RefIsConsonant)
RefVowels(s) == SelectSeq(upper(s), RefIsVowel)

\* c with the digits at the positions of S replaced by their omocodia letters
\* and the control letter recomputed.
Omocode(c, S) ==
    Reseal([i \in 1..Len(c) |->
               IF i \in S /\ c[i] \in Range(digits)
               THEN OmoLetters[IndexOf(c[i], digits) + 1]
               ELSE c[i]])

\* The arguments of build that C1 calls valid.
ValidPerson(p) ==
    /\ p.surname # <<>>
    /\ \A i \in 1..Len(p.surname) : p.surname[i] \in Letters \cup {" "}
    /\ \A i \in 1..Len(p.name) : p.name[i] \in Letters
    /\ p.birthday.year \in 1000..9999
    /\ p.birthday.month \in 1..12
    /\ p.birthday.day \in 1..31
    /\ p.sex \in {"M", "F"}
    /\ Len(p.municipality) = 4
    /\ p.municipality[1] \in Range(ascii_uppercase)
    /\ \A i \in 2..4 : p.municipality[i] \in Range(digits)

----------------------------------------------------------------------------
(* C1.  Round trip: on every valid surname, name, birth date, sex and      *)
(* municipality code, build returns a 16-character code that isvalid       *)
(* accepts.  (Stated as the claim; a one-letter surname makes build raise.)*)
C1_BuildRoundTrip ==
    (calls = <<"build">> /\ ValidPerson(person))
        => /\ ret.exc = "None"
           /\ Len(ret.val) = 16
           /\ RefValid(PyStr(ret.val))

(* C2.  isvalid never raises and returns a boolean, which is true exactly  *)
(* when the argument is a text of length 16 whose upper-cased form matches *)
(* the per-position grammar and whose 16th character is the control letter *)
(* of the first 15; control_code is reached only on 15 characters that     *)
(* passed the pattern, where it cannot raise.                              *)
C2_IsValidTotal ==
    (calls # <<>> /\ Last(calls) = "isvalid")
        => /\ ret.exc = "None"
           /\ ret.val \in BOOLEAN
           /\ ret.val = RefValid(code)
           /\ (code.text /\ Len(code.s) = 16 /\ RefPattern(upper(code.s)))
                  => control_code(Slice(upper(code.s), 0, 15)).exc = "None"

\* isvalid accepted a code written in lower case.
C2_Witness ==
    /\ calls = <<"isvalid">>
    /\ ret = Ok(TRUE)
    /\ code.s # upper(code.s)

(* C3.  Date round trip: for every year 1..9999, month 1..12, day 1..31,   *)
(* either sex, and names whose triplets are built, build returns a code    *)
(* and get_birthday of it is "DD-MM-YY" of the day, the month and the year *)
(* mod 100.  (Stated as the claim; a year below 1000 makes build raise.)   *)
C3_DateRoundTrip ==
    /\ ( /\ calls = <<"build">>
         /\ person.birthday.year \in 1..9999
         /\ person.birthday.month \in 1..12
         /\ person.birthday.day \in 1..31
         /\ person.sex \in {"M", "F"}
         /\ surname_triplet(person.surname).exc = "None"
         /\ name_triplet(person.name).exc = "None" )
           => ret.exc = "None"
    /\ calls = <<"build", "get_birthday">>
           => ret = Ok(RefTwoDigits(person.birthday.day) \o <<"-">>
                           \o RefTwoDigits(person.birthday.month) \o <<"-">>
                           \o RefTwoDigits(person.birthday.year % 100))

(* C4.  Sex round trip: get_sex of a code that build returned is the sex   *)
(* build was given, "M" or "F", for every day 1..31.                       *)
C4_SexRoundTrip ==
    calls = <<"build", "get_sex">>
        => /\ person.sex \in {"M", "F"}
           /\ person.birthday.day \in 1..31
           /\ ret = Ok(<<person.sex>>)

\* get_sex of a code built for a woman born on a 31st returned "F".
C4_Witness ==
    /\ calls = <<"build", "get_sex">>
    /\ person.sex = "F"
    /\ person.birthday.day = 31
    /\ ret = Ok(<<"F">>)

(* C5.  On a valid code whose day field holds an omocodia letter, get_sex  *)
(* returns "M" when the day value read through the omocodia map is below   *)
(* 32 and "F" otherwise.  (Stated as the claim; get_sex raises there.)     *)
C5_GetSexOmocodia ==
    ( /\ calls # <<>> /\ Last(calls) = "get_sex"
      /\ isvalid(code) = Ok(TRUE)
      /\ \E i \in {10, 11} : code.s[i] \in Range(OmoLetters) )
        => /\ ret.exc = "None"
           /\ ret.val = << IF RefDigit(code.s[10]) * 10 + RefDigit(code.s[11]) < 32
                           THEN "M" ELSE "F" >>

(* C6.  get_birthday is invariant under omocodia substitution: on a valid  *)
(* upper-case code it returns a result, and it returns the same result on  *)
(* the code with any subset of the year and day digits replaced by their   *)
(* letters and the control letter recomputed.                              *)
C6_BirthdayOmocodia ==
    ( /\ calls # <<>> /\ Last(calls) = "get_birthday"
      /\ code.text /\ code.s = upper(code.s)
      /\ isvalid(code) = Ok(TRUE) )
        => /\ ret.exc = "None"
           /\ \A S \in SUBSET {7, 8, 10, 11} :
                  get_birthday(PyStr(Omocode(code.s, S))) = ret

\* get_birthday decoded a code whose year and day are all digits, which the
\* substitution changes.
C6_Witness ==
    /\ calls = <<"get_birthday">>
    /\ code.text
    /\ Len(code.s) = 16
    /\ \A i \in {7, 8, 10, 11} : code.s[i] \in Range(digits)
    /\ Omocode(code.s, {7, 8, 10, 11}) # code.s
    /\ ret = Ok(<<"1", "8", "-", "1", "1", "-", "8", "3">>)

(* C7 as stated.  control_code of 15 characters over 0-9 and A-Z is the    *)
(* letter at (sum mod 26) of the odd-table values at even positions and    *)
(* the even-table values at odd positions, the even-table giving the       *)
(* letters A..Z the values 10..35.                                         *)
C7_ChecksumAsStated ==
    (calls = <<"control_code">> /\ Len(code.s) = 15 /\ AlphaNum(code.s))
        => ret = Ok(<<RefControl(code.s, 10)>>)

(* C7 as amended.  The same, the even-table giving the letters A..Z the    *)
(* values 0..25, each its own 0-based index.                               *)
C7_Checksum ==
    (calls = <<"control_code">> /\ Len(code.s) = 15 /\ AlphaNum(code.s))
        => ret = Ok(<<RefControl(code.s, 0)>>)

\* control_code of the docstring's example, with letters at odd positions,
\* returned H.
C7_Witness ==
    /\ calls = <<"control_code">>
    /\ code.s = <<"R","C","C","M","N","L","8","3","S","1","8","D","9","6","9">>
    /\ ret = Ok(<<"H">>)

(* C8.  The common triplet is total: for every non-empty text of letters   *)
(* and spaces it is the consonants followed by the vowels, cut to 3 and    *)
(* completed with X when fewer than 3 letters are there.  (Stated as the   *)
(* claim; the code raises when the vowels run out.)                        *)
C8_TripletTotal ==
    ( /\ calls \in {<<"surname_triplet">>, <<"name_triplet">>}
      /\ code.s # <<>>
      /\ \A i \in 1..Len(code.s) : code.s[i] \in Letters \cup {" "}
      /\ calls = <<"name_triplet">> => Len(RefConsonants(code.s)) <= 3 )
        => /\ ret.exc = "None"
           /\ ret.val = SubSeq(RefConsonants(code.s) \o RefVowels(code.s)
                                   \o <<"X", "X", "X">>, 1, 3)

(* C9.  The name triplet is XXX for the empty name, the 1st, 3rd and 4th   *)
(* consonants when there are more than 3, and otherwise what the surname   *)
(* triplet of the same text is; the surname triplet of a text with 3 or    *)
(* more consonants is its first three consonants.                          *)
C9_NameTripletRule ==
    /\ calls = <<"name_triplet">> =>
           LET k == RefConsonants(code.s)
           IN  /\ code.s = <<>> => ret = Ok(<<"X", "X", "X">>)
               /\ Len(k) > 3 => ret = Ok(<<k[1], k[3], k[4]>>)
               /\ (code.s # <<>> /\ Len(k) <= 3) => ret = surname_triplet(code.s)
    /\ calls = <<"surname_triplet">> =>
           LET k == RefConsonants(code.s)
           IN  Len(k) >= 3 => ret = Ok(SubSeq(k, 1, 3))

\* The name triplet of "RCmC" skipped the second consonant.
C9_Witness ==
    /\ calls = <<"name_triplet">>
    /\ code.s = <<"R", "C", "m", "C">>
    /\ ret = Ok(<<"R", "M", "C">>)

(* C10.  On every text that isvalid accepts, lower case included,          *)
(* get_birthday returns a result, the one it returns on the upper-cased    *)
(* text.  (Stated as the claim; a lower-case month letter makes it raise.) *)
C10_DecodeDefined ==
    ( /\ calls # <<>> /\ Last(calls) = "get_birthday"
      /\ isvalid(code) = Ok(TRUE) )
        => /\ ret.exc = "None"
           /\ ret = get_birthday(PyStr(upper(code.s)))

====
